---- MODULE Spec2Model ----
(***************************************************************************)
(* Model of filament's separable image resampler                           *)
(* (libs/image/src/ImageSampler.cpp): the filter kernels, the generation   *)
(* of the multiply-add (MAD) program of one axis, its channel expansion,   *)
(* its row-wise execution, and the 2D and single-sample drivers.           *)
(*                                                                         *)
(* Numbers.  The C++ code computes in IEEE binary32.  The model computes   *)
(* in exact rational arithmetic: a float is a pair <<n, d>> with d > 0 in  *)
(* lowest terms.  Rounding error is therefore absent from the model; every *)
(* comparison, truncation and ceiling is the one the code performs.  The   *)
(* two transcendental functions of the kernels (expf in Gaussian, sinf in  *)
(* sinc) have no rational value; they are replaced by rational surrogates  *)
(* with the same sign and the same zeros on the domain where the code      *)
(* evaluates them (see GaussianFn and sinc).                               *)
(***************************************************************************)
EXTENDS Integers, Sequences, FiniteSets, TLC

VARIABLES
    pc,        \* position of the modelled call
    args,      \* arguments of the modelled call (a record)
    program,   \* the MadProgram buffer (lines 284, 298): a sequence of MadInstruction
    weight,    \* result of the last kernel evaluation (line 152)
    source,    \* the LinearImage the current 1D pass reads (line 214)
    result,    \* the LinearImage the current 1D pass writes (line 229) / the call returns
    frame,     \* parameters and locals of the current resampleImage1D call (lines 214-221)
    pass,      \* which 1D pass of the driver is running (0: none)
    row,       \* executor position: next row of the pass to execute (lines 238, 251)
    pixel,     \* the SinglePixel computeSingleSample writes (<<>>: null)
    ip         \* rows run in any order: per row, the instructions already run

vars == <<pc, args, program, weight, source, result, frame, pass, row, pixel, ip>>

----------------------------------------------------------------------------
(* Rational arithmetic standing for float arithmetic.                      *)

Abs(n) == IF n < 0 THEN -n ELSE n

RECURSIVE GCD(_, _)
GCD(a, b) == IF b = 0 THEN a ELSE GCD(b, a % b)

\* The rational n/d (d # 0) in lowest terms with a positive denominator.
R(n, d) ==
    LET s == IF d < 0 THEN -1 ELSE 1
        g == GCD(Abs(n), Abs(d))
    IN  <<(s * n) \div g, (s * d) \div g>>

Zero == R(0, 1)
One == R(1, 1)
F(n) == R(n, 1)

\* Sums go through the least common denominator and products are reduced
\* crosswise first, which keeps the intermediate integers small.
RAdd(a, b) ==
    LET g == GCD(a[2], b[2])
    IN  R(a[1] * (b[2] \div g) + b[1] * (a[2] \div g), (a[2] \div g) * b[2])
RMul(a, b) ==
    LET g1 == GCD(Abs(a[1]), b[2])
        g2 == GCD(Abs(b[1]), a[2])
    IN  R((a[1] \div g1) * (b[1] \div g2), (a[2] \div g2) * (b[2] \div g1))
RSub(a, b) == RAdd(a, <<-b[1], b[2]>>)
RDiv(a, b) == RMul(a, IF b[1] < 0 THEN <<-b[2], -b[1]>> ELSE <<b[2], b[1]>>)
RAbs(a) == <<Abs(a[1]), a[2]>>
RLt(a, b) == a[1] * b[2] < b[1] * a[2]
RLe(a, b) == a[1] * b[2] <= b[1] * a[2]
RGe(a, b) == RLe(b, a)
RMin(a, b) == IF RLt(b, a) THEN b ELSE a

\* int32_t(x): conversion of a float to an integer truncates toward zero.
RTrunc(a) == IF a[1] >= 0 THEN a[1] \div a[2] ELSE -((-a[1]) \div a[2])
\* ceilf(x)
RCeil(a) == -((-a[1]) \div a[2])

----------------------------------------------------------------------------
(* Kernels (ImageSampler.cpp:30-93).                                       *)

\* Box.fn with the box as wide as its boundingRadius.
BoxFn_Wide(t) == IF RLe(t, One) THEN One ELSE Zero

\* Box.fn
BoxFn(t) == IF RLe(t, R(1, 2)) THEN One ELSE Zero

\* Gaussian.fn.  expf(-2 t^2) is replaced by the polynomial 1 - t^2 / 4,
\* which like expf is 1 at 0 and positive and decreasing on [0, 2), the only
\* interval where the code evaluates it; the constant 1 / sqrtf(0.5 pi) =
\* 0.79788... is replaced by 4/5.
GaussianFn(t) ==
    IF RGe(t, F(2)) THEN Zero
    ELSE LET scale == R(4, 5)
         IN  RMul(RSub(One, RDiv(RMul(t, t), F(4))), scale)

\* Hermite.fn cut off at 2, the radius of the wider kernels.
HermiteFn_LateCutoff(t) ==
    IF RGe(t, F(2)) THEN Zero
    ELSE LET t2 == RMul(t, t)
             t3 == RMul(t2, t)
         IN  RAdd(RSub(RMul(F(2), t3), RMul(F(3), t2)), One)

\* Hermite.fn
HermiteFn(t) ==
    IF RGe(t, One) THEN Zero
    ELSE LET t2 == RMul(t, t)
             t3 == RMul(t2, t)
         IN  RAdd(RSub(RMul(F(2), t3), RMul(F(3), t2)), One)

\* Mitchell.fn, with the constants P0..Q3 folded for B = C = 1/3.
MitchellFn(t) ==
    LET P0 == R(8, 9)
        P1 == Zero
        P2 == F(-2)
        P3 == R(7, 6)
        Q0 == R(16, 9)
        Q1 == R(-10, 3)
        Q2 == F(2)
        Q3 == R(-7, 18)
        t2 == RMul(t, t)
        t3 == RMul(t2, t)
        Cubic(c0, c1, c2, c3) ==
            RAdd(RAdd(c0, RMul(c1, t)), RAdd(RMul(c2, t2), RMul(c3, t3)))
    IN  IF RGe(t, F(2)) THEN Zero
        ELSE IF RGe(t, One) THEN Cubic(Q0, Q1, Q2, Q3)
        ELSE Cubic(P0, P1, P2, P3)

\* sinc.  sinf(pi t) / (pi t) is replaced by 1 - t^2, the first factor of
\* Euler's product for it: on [0, 1], where Lanczos evaluates it, both are
\* positive below 1 (the float sinf(M_PIf * t) is non-zero there too).
sinc(t) ==
    IF RLe(t, R(1, 100000)) THEN One
    ELSE RSub(One, RMul(t, t))

\* Lanczos.fn
LanczosFn(t) ==
    IF RGe(t, One) THEN Zero
    ELSE RMul(sinc(t), sinc(t))

\* The FilterFn values.  fn is a function pointer in the code, a tag here.
Box == [fn |-> "Box", boundingRadius |-> One, rejectExternalSamples |-> TRUE]
Nearest == [fn |-> Box.fn, boundingRadius |-> Zero, rejectExternalSamples |-> TRUE]
Gaussian == [fn |-> "Gaussian", boundingRadius |-> F(2), rejectExternalSamples |-> TRUE]
Hermite == [fn |-> "Hermite", boundingRadius |-> One, rejectExternalSamples |-> TRUE]
Mitchell == [fn |-> "Mitchell", boundingRadius |-> F(2), rejectExternalSamples |-> TRUE]
Lanczos == [fn |-> "Lanczos", boundingRadius |-> One, rejectExternalSamples |-> TRUE]

\* filter.fn(t): the call through the function pointer.
CallFn(fn, t) ==
    CASE fn = "Box" -> BoxFn(t)
      [] fn = "Gaussian" -> GaussianFn(t)
      [] fn = "Hermite" -> HermiteFn(t)
      [] fn = "Mitchell" -> MitchellFn(t)
      [] fn = "Lanczos" -> LanczosFn(t)

KernelNames == {"Box", "Nearest", "Gaussian", "Hermite", "Mitchell", "Lanczos"}

Kernel(name) ==
    CASE name = "Box" -> Box
      [] name = "Nearest" -> Nearest
      [] name = "Gaussian" -> Gaussian
      [] name = "Hermite" -> Hermite
      [] name = "Mitchell" -> Mitchell
      [] name = "Lanczos" -> Lanczos

----------------------------------------------------------------------------
(* generateMadProgram (ImageSampler.cpp:119-168).                          *)

\* The loop-invariant quantities of one call.
domainScaleOf(ntarget, nsource, left, right, radiusMultiplier) ==
    LET fnsource == RMul(F(nsource), RSub(right, left))
        minifying == RLt(F(ntarget), fnsource)
    IN  RDiv(IF minifying THEN F(ntarget) ELSE fnsource, radiusMultiplier)

filterBoundsOf(domainScale, filter) ==
    RMul(domainScale, RAbs(filter.boundingRadius))

\* xtarget in iteration itarget: dtarget / 2 advanced itarget times by dtarget.
xtargetOf(ntarget, itarget) ==
    LET dtarget == RDiv(One, F(ntarget))
    IN  RAdd(RDiv(dtarget, F(2)), RMul(F(itarget), dtarget))

isource_lowerOf(xtarget, filterBounds, nsource) ==
    RTrunc(RMul(RSub(xtarget, filterBounds), F(nsource)))

isource_upperOf(xtarget, filterBounds, nsource) ==
    RCeil(RMul(RAdd(xtarget, filterBounds), F(nsource)))

\* xsource taken at the left edge of the source pixel, not at its centre.
xsourceOf_NoHalfPixel(isource, nsource, left, right) ==
    RDiv(RSub(RDiv(F(isource), F(nsource)), left), RSub(right, left))

xsourceOf(isource, nsource, left, right) ==
    RDiv(RSub(RDiv(R(2 * isource + 1, 2), F(nsource)), left), RSub(right, left))

\* The test of line 148 without outside_image.
Rejected_RangeOnly(filter, isource, nsource, xsource) ==
    LET outside_range == RLt(xsource, Zero) \/ RGe(xsource, One)
    IN  filter.rejectExternalSamples /\ outside_range

\* The test of line 148: the candidate is skipped.
Rejected(filter, isource, nsource, xsource) ==
    LET outside_image == isource < 0 \/ isource >= nsource
        outside_range == RLt(xsource, Zero) \/ RGe(xsource, One)
    IN  filter.rejectExternalSamples /\ (outside_image \/ outside_range)

\* The weight the inner loop computes for a candidate (lines 151-152).
weightOf(filter, domainScale, xsource, xtarget) ==
    CallFn(filter.fn, RMul(domainScale, RAbs(RSub(xsource, xtarget))))

RECURSIVE SumWeights(_)
SumWeights(mads) ==
    IF mads = <<>> THEN Zero
    ELSE RAdd(mads[1].weight, SumWeights(Tail(mads)))

\* The normalisation loop stopping one instruction early.
NormalizeWeights_SkipLast(mads, sum) ==
    IF sum # Zero
    THEN [i \in 1..Len(mads) |->
             IF i < Len(mads) THEN [mads[i] EXCEPT !.weight = RDiv(@, sum)] ELSE mads[i]]
    ELSE mads

\* Lines 161-166: the last count instructions are divided by sum, if sum # 0.
\* mads are the instructions appended for this target (count = Len(mads)).
NormalizeWeights(mads, sum) ==
    IF sum # Zero
    THEN [i \in 1..Len(mads) |-> [mads[i] EXCEPT !.weight = RDiv(@, sum)]]
    ELSE mads

\* The instructions one iteration of the outer loop appends (lines 138-166).
TargetInstructions(itarget, ntarget, nsource, left, right, filter, radiusMultiplier) ==
    LET domainScale == domainScaleOf(ntarget, nsource, left, right, radiusMultiplier)
        filterBounds == filterBoundsOf(domainScale, filter)
        xtarget == xtargetOf(ntarget, itarget)
        isource_lower == isource_lowerOf(xtarget, filterBounds, nsource)
        isource_upper == isource_upperOf(xtarget, filterBounds, nsource)
        n == IF isource_upper >= isource_lower THEN isource_upper - isource_lower + 1 ELSE 0
        cand == [k \in 1..n |->
                    LET isource == isource_lower + k - 1
                        xsource == xsourceOf(isource, nsource, left, right)
                    IN  [targetIndex |-> itarget,
                         sourceIndex |-> isource,
                         weight |-> IF Rejected(filter, isource, nsource, xsource)
                                    THEN Zero
                                    ELSE weightOf(filter, domainScale, xsource, xtarget)]]
        pushed == SelectSeq(cand, LAMBDA m : m.weight # Zero)
    IN  NormalizeWeights(pushed, SumWeights(pushed))

RECURSIVE generateFrom(_, _, _, _, _, _, _)
generateFrom(itarget, ntarget, nsource, left, right, filter, radiusMultiplier) ==
    IF itarget >= ntarget THEN <<>>
    ELSE TargetInstructions(itarget, ntarget, nsource, left, right, filter, radiusMultiplier)
         \o generateFrom(itarget + 1, ntarget, nsource, left, right, filter, radiusMultiplier)

\* The instructions generateMadProgram appends to *result.
generateMadProgram(ntarget, nsource, left, right, filter, radiusMultiplier) ==
    generateFrom(0, ntarget, nsource, left, right, filter, radiusMultiplier)

----------------------------------------------------------------------------
(* expandMadProgram, createFilterFunction (ImageSampler.cpp:172-203).      *)

\* Every instruction becomes nchannels instructions, one per channel.
expandMadProgram(nchannels, prog) ==
    IF nchannels = 1 THEN prog
    ELSE [idx \in 1..(Len(prog) * nchannels) |->
            LET mad == prog[((idx - 1) \div nchannels) + 1]
                j == (idx - 1) % nchannels
            IN  [targetIndex |-> mad.targetIndex * nchannels + j,
                 sourceIndex |-> mad.sourceIndex * nchannels + j,
                 weight |-> mad.weight]]

\* A default-constructed FilterFn.
DefaultFilterFn == [fn |-> "nullptr", boundingRadius |-> One, rejectExternalSamples |-> TRUE]

Filters == {"DEFAULT", "BOX", "NEAREST", "HERMITE", "MITCHELL", "LANCZOS",
            "GAUSSIAN_SCALARS", "GAUSSIAN_NORMALS", "MINIMUM"}

\* For Filter::DEFAULT the code panics; the caller tests for it.
createFilterFunction(ftype) ==
    CASE ftype \in {"MINIMUM", "BOX"} -> Box
      [] ftype = "NEAREST" -> Nearest
      [] ftype = "HERMITE" -> Hermite
      [] ftype = "MITCHELL" -> Mitchell
      [] ftype = "LANCZOS" -> Lanczos
      [] ftype \in {"GAUSSIAN_NORMALS", "GAUSSIAN_SCALARS"} -> Gaussian
      [] ftype = "DEFAULT" -> DefaultFilterFn

----------------------------------------------------------------------------
(* Images and the executor (ImageSampler.cpp:228-257).                     *)

\* A LinearImage: row-major samples, data[(y * width + x) * channels + c + 1].
\* LinearImage(w, h, c) allocates a zero-filled image.
LinearImage(width, height, channels) ==
    [width |-> width, height |-> height, channels |-> channels,
     data |-> [i \in 1..(width * height * channels) |-> Zero]]

\* std::numeric_limits<float>::max(): a value above every sample.  <<1, 0>>
\* compares greater than every rational under RLt.
FloatMax == <<1, 0>>

\* One iteration of the row loop in weighted-sum mode: the program is run
\* over the rows at offsets tbase (target) and sbase (source).
RECURSIVE executeRow(_, _, _, _, _)
executeRow(target, src, prog, tbase, sbase) ==
    IF prog = <<>> THEN target
    ELSE LET mad == Head(prog)
         IN  executeRow(
                 [target EXCEPT ![tbase + mad.targetIndex + 1] =
                     RAdd(@, RMul(src[sbase + mad.sourceIndex + 1], mad.weight))],
                 src, Tail(prog), tbase, sbase)

\* One iteration of the row loop in minimum mode.
RECURSIVE executeMinRow(_, _, _, _, _)
executeMinRow(target, src, prog, tbase, sbase) ==
    IF prog = <<>> THEN target
    ELSE LET mad == Head(prog)
             a == src[sbase + mad.sourceIndex + 1]
             b == target[tbase + mad.targetIndex + 1]
         IN  executeMinRow(
                 [target EXCEPT ![tbase + mad.targetIndex + 1] = RMin(a, b)],
                 src, Tail(prog), tbase, sbase)

\* transpose (image/ImageOps.h): width and height are swapped and the sample
\* of column x, row y moves to column y, row x.
transpose(image) ==
    [width |-> image.height, height |-> image.width, channels |-> image.channels,
     data |-> [i \in 1..(image.width * image.height * image.channels) |->
                 LET c == (i - 1) % image.channels
                     p == (i - 1) \div image.channels
                     col == p % image.height
                     line == p \div image.height
                 IN  image.data[(col * image.width + line) * image.channels + c + 1]]]

----------------------------------------------------------------------------
(* Bounds and input sets.                                                  *)

MaxN == 4        \* largest row length (ntarget, nsource)
MaxT == 10       \* kernel distances are k / 4 for k in 0..MaxT

\* left and right are drawn from these coordinates of [0, 1].
Coords == {Zero, R(1, 4), R(1, 2), R(3, 4), One}
FullRange == <<Zero, One>>
SubRanges == {lr \in Coords \X Coords : RLt(lr[1], lr[2])}
RadiusMultipliers == {R(1, 2), One, F(2)}

NoImage == [width |-> 0, height |-> 0, channels |-> 0, data |-> <<>>]
NoFrame == [twidth |-> 0, filter |-> "DEFAULT", left |-> Zero, right |-> One,
            filterRadiusMultiplier |-> One, hfn |-> DefaultFilterFn]

----------------------------------------------------------------------------
(* SpecKernel: one evaluation of a kernel's weight function.               *)

InitKernel ==
    /\ pc = "kernel"
    /\ args \in [kernel : KernelNames, t : {R(k, 4) : k \in 0..MaxT}]
    /\ program = <<>>
    /\ weight = Zero
    /\ source = NoImage
    /\ result = NoImage
    /\ frame = NoFrame
    /\ pass = 0
    /\ row = 0
    /\ pixel = <<>>
    /\ ip = <<>>

Evaluate ==
    /\ pc = "kernel"
    /\ weight' = CallFn(Kernel(args.kernel).fn, args.t)
    /\ pc' = "evaluated"
    /\ UNCHANGED <<args, program, source, result, frame, pass, row, pixel, ip>>

NextKernel == Evaluate

SpecKernel == InitKernel /\ [][NextKernel]_vars

----------------------------------------------------------------------------
(* SpecGen: one call of generateMadProgram on an empty program.            *)

InitGen ==
    /\ pc = "generateMadProgram"
    /\ args \in [ntarget : 1..MaxN, nsource : 1..MaxN, range : SubRanges,
                 kernel : KernelNames, radiusMultiplier : RadiusMultipliers]
    /\ program = <<>>
    /\ weight = Zero
    /\ source = NoImage
    /\ result = NoImage
    /\ frame = NoFrame
    /\ pass = 0
    /\ row = 0
    /\ pixel = <<>>
    /\ ip = <<>>

Generate ==
    /\ pc = "generateMadProgram"
    /\ program' = program \o generateMadProgram(args.ntarget, args.nsource,
                      args.range[1], args.range[2], Kernel(args.kernel),
                      args.radiusMultiplier)
    /\ pc' = "generated"
    /\ UNCHANGED <<args, weight, source, result, frame, pass, row, pixel, ip>>

NextGen == Generate

SpecGen == InitGen /\ [][NextGen]_vars

----------------------------------------------------------------------------
(* resampleImage1D (ImageSampler.cpp:214-264), one action per step.        *)
(* The post-processing of Filter::GAUSSIAN_NORMALS (normalize, lines       *)
(* 205-212 and 260-262) takes a square root and is outside the model: the  *)
(* calls below never pass that filter.                                     *)

\* Lines 216-221: Filter::DEFAULT is resolved, the kernel is looked up.
ResolveFilter ==
    /\ pc = "filter"
    /\ LET mag == frame.twidth > source.width
           filter == IF frame.filter = "DEFAULT"
                     THEN (IF mag THEN "MITCHELL" ELSE "LANCZOS")
                     ELSE frame.filter
       IN  /\ frame' = [frame EXCEPT !.filter = filter,
                                     !.hfn = createFilterFunction(filter)]
           /\ pc' = IF filter = "DEFAULT" THEN "panic" ELSE "clear"
    /\ UNCHANGED <<args, program, weight, source, result, pass, row, pixel, ip>>

\* The buffer handed on as the previous pass left it.
ClearProgram_Skipped ==
    /\ pc = "clear"
    /\ pc' = "generate"
    /\ UNCHANGED <<args, program, weight, source, result, frame, pass, row, pixel, ip>>

\* Line 224: program->clear()
ClearProgram ==
    /\ pc = "clear"
    /\ program' = <<>>
    /\ pc' = "generate"
    /\ UNCHANGED <<args, weight, source, result, frame, pass, row, pixel, ip>>

\* Line 225
GenerateProgram ==
    /\ pc = "generate"
    /\ program' = program \o generateMadProgram(frame.twidth, source.width,
                      frame.left, frame.right, frame.hfn, frame.filterRadiusMultiplier)
    /\ pc' = "expand"
    /\ UNCHANGED <<args, weight, source, result, frame, pass, row, pixel, ip>>

\* Line 226
ExpandProgram ==
    /\ pc = "expand"
    /\ program' = expandMadProgram(source.channels, program)
    /\ pc' = "allocate"
    /\ UNCHANGED <<args, weight, source, result, frame, pass, row, pixel, ip>>

\* The target image allocated with the source's width.
AllocateResult_SourceWidth ==
    /\ pc = "allocate"
    /\ result' = LinearImage(source.width, source.height, source.channels)
    /\ row' = 0
    /\ pc' = IF frame.filter = "MINIMUM" THEN "fill" ELSE "execute"
    /\ UNCHANGED <<args, program, weight, source, frame, pass, pixel, ip>>

\* Lines 229-231: the target image is allocated, both row pointers are reset.
AllocateResult ==
    /\ pc = "allocate"
    /\ result' = LinearImage(frame.twidth, source.height, source.channels)
    /\ row' = 0
    /\ pc' = IF frame.filter = "MINIMUM" THEN "fill" ELSE "execute"
    /\ UNCHANGED <<args, program, weight, source, frame, pass, pixel, ip>>

\* The minimum mode starting from the zero-filled image.
FillMax_Skipped ==
    /\ pc = "fill"
    /\ pc' = "executeMin"
    /\ UNCHANGED <<args, program, weight, source, result, frame, pass, row, pixel, ip>>

\* Lines 235-237
FillMax ==
    /\ pc = "fill"
    /\ result' = [result EXCEPT !.data = [n \in DOMAIN result.data |-> FloatMax]]
    /\ pc' = "executeMin"
    /\ UNCHANGED <<args, program, weight, source, frame, pass, row, pixel, ip>>

\* Lines 238-246: one row in minimum mode.
ExecuteMinRow ==
    /\ pc = "executeMin"
    /\ row < source.height
    /\ result' = [result EXCEPT !.data =
                     executeMinRow(@, source.data, program,
                                   row * frame.twidth * source.channels,
                                   row * source.width * source.channels)]
    /\ row' = row + 1
    /\ UNCHANGED <<pc, args, program, weight, source, frame, pass, pixel, ip>>

\* Lines 251-257: one row in weighted-sum mode.
ExecuteRow ==
    /\ pc = "execute"
    /\ row < source.height
    /\ result' = [result EXCEPT !.data =
                     executeRow(@, source.data, program,
                                row * frame.twidth * source.channels,
                                row * source.width * source.channels)]
    /\ row' = row + 1
    /\ UNCHANGED <<pc, args, program, weight, source, frame, pass, pixel, ip>>

\* The row loop ends (lines 238, 251) and the function returns its result
\* (lines 247, 263).
FinishRows ==
    /\ pc \in {"execute", "executeMin"}
    /\ row >= source.height
    /\ pc' = "return"
    /\ UNCHANGED <<args, program, weight, source, result, frame, pass, row, pixel, ip>>

resampleImage1D ==
    \/ ResolveFilter
    \/ ClearProgram
    \/ GenerateProgram
    \/ ExpandProgram
    \/ AllocateResult
    \/ FillMax
    \/ ExecuteMinRow
    \/ ExecuteRow
    \/ FinishRows

\* The frame of a call resampleImage1D(source, &program, twidth, filter,
\* left, right, filterRadiusMultiplier).
Frame(twidth, filter, left, right, radius) ==
    [twidth |-> twidth, filter |-> filter, left |-> left, right |-> right,
     filterRadiusMultiplier |-> radius, hfn |-> DefaultFilterFn]

----------------------------------------------------------------------------
(* resampleImage (ImageSampler.cpp:270-289).                               *)

\* The precondition testing three of the four edges.
BoundaryPrecondition_NoSouth(sampler) ==
    /\ sampler.east = "EXCLUDE"
    /\ sampler.north = "EXCLUDE"
    /\ sampler.west = "EXCLUDE"

\* ASSERT_PRECONDITION (utils/Panic.h): the call goes on to next if the
\* condition holds and ends in the fatal-precondition state if not.
ASSERT_PRECONDITION(cond, next) == IF cond THEN next ELSE "panic"

\* The precondition of lines 272-276.
BoundaryPrecondition(sampler) ==
    /\ sampler.east = "EXCLUDE"
    /\ sampler.north = "EXCLUDE"
    /\ sampler.west = "EXCLUDE"
    /\ sampler.south = "EXCLUDE"

\* Lines 272-286: the precondition, then the call of the horizontal pass.
CallResampleImage ==
    /\ pc = "call"
    /\ args.api = "resampleImage"
    /\ pc' = ASSERT_PRECONDITION(BoundaryPrecondition(args.sampler), "filter")
    /\ IF pc' = "filter"
       THEN /\ frame' = Frame(args.width, args.sampler.horizontalFilter,
                              args.sampler.sourceRegion.left,
                              args.sampler.sourceRegion.right,
                              args.sampler.filterRadiusMultiplier)
            /\ source' = args.source
            /\ pass' = 1
       ELSE UNCHANGED <<frame, source, pass>>
    /\ UNCHANGED <<args, program, weight, result, row, pixel, ip>>

\* Lines 286-287: the horizontal pass returns, its result is transposed and
\* becomes the source of the vertical pass.
ReturnHorizontal ==
    /\ pc = "return"
    /\ args.api = "resampleImage"
    /\ pass = 1
    /\ result' = transpose(result)
    /\ source' = result'
    /\ frame' = Frame(args.height, args.sampler.verticalFilter,
                      args.sampler.sourceRegion.top,
                      args.sampler.sourceRegion.bottom,
                      args.sampler.filterRadiusMultiplier)
    /\ pass' = 2
    /\ pc' = "filter"
    /\ UNCHANGED <<args, program, weight, row, pixel, ip>>

\* Lines 287-288: the vertical pass returns, its result is transposed and
\* returned.
ReturnVertical ==
    /\ pc = "return"
    /\ args.api = "resampleImage"
    /\ pass = 2
    /\ result' = transpose(result)
    /\ pc' = "done"
    /\ UNCHANGED <<args, program, weight, source, frame, pass, row, pixel, ip>>

----------------------------------------------------------------------------
(* computeSingleSample (ImageSampler.cpp:291-309).                         *)

\* Lines 293-299
CallComputeSingleSample ==
    /\ pc = "call"
    /\ args.api = "computeSingleSample"
    /\ LET radius == One
           left == RSub(args.x, RDiv(radius, F(args.source.width)))
           right == RAdd(args.x, RDiv(radius, F(args.source.width)))
       IN  frame' = Frame(1, args.filter, left, right, radius)
    /\ source' = args.source
    /\ pass' = 1
    /\ pc' = "filter"
    /\ UNCHANGED <<args, program, weight, result, row, pixel, ip>>

\* Lines 299-300: the first pass returns, its result is transposed into row,
\* the source of the second pass.
ReturnSampleRow ==
    /\ pc = "return"
    /\ args.api = "computeSingleSample"
    /\ pass = 1
    /\ result' = transpose(result)
    /\ source' = result'
    /\ LET radius == One
           top == RSub(args.y, RDiv(radius, F(args.source.height)))
           bottom == RAdd(args.y, RDiv(radius, F(args.source.height)))
       IN  frame' = Frame(1, args.filter, top, bottom, radius)
    /\ pass' = 2
    /\ pc' = "filter"
    /\ UNCHANGED <<args, program, weight, row, pixel, ip>>

\* Lines 300-308: the second pass returns row, whose first samples are
\* copied to the result pixel, one per channel of the source.
ReturnSamplePixel ==
    /\ pc = "return"
    /\ args.api = "computeSingleSample"
    /\ pass = 2
    /\ pixel' = [c \in 1..args.source.channels |-> result.data[c]]
    /\ pc' = "done"
    /\ UNCHANGED <<args, program, weight, source, result, frame, pass, row, ip>>

----------------------------------------------------------------------------
(* Spec: one call of resampleImage or of computeSingleSample.              *)

MaxDim == 2      \* largest width and height of a source image and of a request

\* Images whose samples are 1, 2, 3, ... in storage order: every sample of
\* an image differs from every other.
CountingImage(w, h, c) ==
    [width |-> w, height |-> h, channels |-> c, data |-> [i \in 1..(w * h * c) |-> F(i)]]

ChannelCounts == {1, 3}
DriverImages == {CountingImage(w, h, c) : w \in 1..MaxDim, h \in 1..MaxDim, c \in ChannelCounts}
DriverFilters == Filters \ {"GAUSSIAN_NORMALS"}
Boundaries == {"EXCLUDE", "CLAMP"}
Regions == {[left |-> Zero, top |-> Zero, right |-> One, bottom |-> One],
            [left |-> R(1, 4), top |-> Zero, right |-> R(3, 4), bottom |-> R(1, 2)]}

Samplers ==
    [horizontalFilter : DriverFilters, verticalFilter : DriverFilters,
     filterRadiusMultiplier : {One}, sourceRegion : Regions,
     east : Boundaries, north : Boundaries, west : Boundaries, south : Boundaries]

ResampleImageCalls ==
    [api : {"resampleImage"}, source : DriverImages, width : 1..MaxDim,
     height : 1..MaxDim, sampler : Samplers]

\* x and y run over the centres and the edges of the source's pixels.
ComputeSingleSampleCalls ==
    {[api |-> "computeSingleSample", source |-> img, x |-> R(i, 2 * img.width),
      y |-> R(j, 2 * img.height), filter |-> f] :
        img \in DriverImages, i \in 0..(2 * MaxDim), j \in 0..(2 * MaxDim),
        f \in DriverFilters}

Init ==
    /\ pc = "call"
    /\ args \in ResampleImageCalls \cup
                {a \in ComputeSingleSampleCalls :
                    RLe(a.x, One) /\ RLe(a.y, One)}
    /\ program = <<>>
    /\ weight = Zero
    /\ source = NoImage
    /\ result = NoImage
    /\ frame = NoFrame
    /\ pass = 0
    /\ row = 0
    /\ pixel = <<>>
    /\ ip = <<>>

Next ==
    \/ CallResampleImage
    \/ CallComputeSingleSample
    \/ resampleImage1D
    \/ ReturnHorizontal
    \/ ReturnVertical
    \/ ReturnSampleRow
    \/ ReturnSamplePixel

Spec == Init /\ [][Next]_vars

----------------------------------------------------------------------------
(* Reading a program.                                                      *)

InstructionsOf(prog, t) == SelectSeq(prog, LAMBDA m : m.targetIndex = t)
TargetsOf(prog) == {prog[i].targetIndex : i \in DOMAIN prog}
Mad(t, s, w) == [targetIndex |-> t, sourceIndex |-> s, weight |-> w]

\* Source sample i contributes to target t in the call args: it is inside
\* the image and the sub-range and the kernel gives it a non-zero weight.
Contributes(a, t, i) ==
    LET filter == Kernel(a.kernel)
        domainScale == domainScaleOf(a.ntarget, a.nsource, a.range[1], a.range[2],
                                     a.radiusMultiplier)
        xsource == xsourceOf(i, a.nsource, a.range[1], a.range[2])
    IN  /\ ~Rejected(filter, i, a.nsource, xsource)
        /\ weightOf(filter, domainScale, xsource, xtargetOf(a.ntarget, t)) # Zero

InWindow(a, t, i) ==
    LET filter == Kernel(a.kernel)
        filterBounds == filterBoundsOf(
            domainScaleOf(a.ntarget, a.nsource, a.range[1], a.range[2],
                          a.radiusMultiplier), filter)
        xtarget == xtargetOf(a.ntarget, t)
    IN  /\ isource_lowerOf(xtarget, filterBounds, a.nsource) <= i
        /\ i <= isource_upperOf(xtarget, filterBounds, a.nsource)

\* Distance between the centre of source sample i and the centre of target t
\* over the full range.
CentreDistance(a, t, i) ==
    RAbs(RSub(xsourceOf(i, a.nsource, Zero, One), xtargetOf(a.ntarget, t)))

----------------------------------------------------------------------------
(* Spec1D: one call of resampleImage1D.                                    *)

MaxH == 2        \* largest height of the image of a 1D call
MaxC == 2        \* largest channel count of the image of a 1D call

\* The sample rows: an image's data repeats one of them in storage order.
SampleRows == {<<F(1), F(2), F(3), F(4)>>, <<F(5), F(2), F(8), F(1)>>,
               <<F(3), F(3), F(7)>>}

PatternImage(w, h, c, base) ==
    [width |-> w, height |-> h, channels |-> c,
     data |-> [i \in 1..(w * h * c) |-> base[((i - 1) % Len(base)) + 1]]]

RowImages ==
    {PatternImage(w, h, c, base) :
        w \in 1..MaxN, h \in 1..MaxH, c \in 1..MaxC, base \in SampleRows}

Ranges1D == {FullRange, <<R(1, 4), R(3, 4)>>, <<Zero, R(1, 2)>>}

Return1D ==
    /\ pc = "return"
    /\ args.api = "resampleImage1D"
    /\ pc' = "returned"
    /\ UNCHANGED <<args, program, weight, source, result, frame, pass, row, pixel, ip>>

Init1D ==
    /\ pc = "filter"
    /\ args \in [api : {"resampleImage1D"}, source : RowImages, twidth : 1..MaxN,
                 filter : DriverFilters, range : Ranges1D,
                 filterRadiusMultiplier : {One, F(2)}]
    /\ frame = Frame(args.twidth, args.filter, args.range[1], args.range[2],
                     args.filterRadiusMultiplier)
    /\ source = args.source
    /\ program = <<>>
    /\ weight = Zero
    /\ result = NoImage
    /\ pass = 0
    /\ row = 0
    /\ pixel = <<>>
    /\ ip = <<>>

Next1D == resampleImage1D \/ Return1D

Spec1D == Init1D /\ [][Next1D]_vars

----------------------------------------------------------------------------
(* Claims about generateMadProgram, under SpecGen.                         *)

\* C1: in every generated program, the weights of the instructions of every
\* target index that appears in it sum to 0 or to 1 within 1e-5.
C1_WeightSumZeroOrOne ==
    pc = "generated" =>
        \A t \in TargetsOf(program) :
            LET sum == SumWeights(InstructionsOf(program, t))
            IN  \/ sum = Zero
                \/ RLe(RAbs(RSub(sum, One)), R(1, 100000))

\* A generated program over a proper sub-range in which some target has
\* several instructions, one of them with a negative weight.
C1_Witness ==
    /\ pc = "generated"
    /\ args.range # FullRange
    /\ \E i \in DOMAIN program :
          /\ RLt(program[i].weight, Zero)
          /\ Len(InstructionsOf(program, program[i].targetIndex)) > 1

\* C9: with Nearest over the full range and radius multiplier 1, every target
\* index has exactly one instruction, and its source is a sample whose centre
\* is nearest to the target's centre.
C9_NearestOnePerTarget ==
    (/\ pc = "generated"
     /\ args.kernel = "Nearest"
     /\ args.range = FullRange
     /\ args.radiusMultiplier = One) =>
        \A t \in 0..(args.ntarget - 1) :
            LET mads == InstructionsOf(program, t)
            IN  /\ Len(mads) = 1
                /\ \A i \in 0..(args.nsource - 1) :
                      RLe(CentreDistance(args, t, mads[1].sourceIndex),
                          CentreDistance(args, t, i))

\* C10: every source sample that contributes to a target lies in the
\* candidate window of that target and so has an instruction in the program.
C10_WindowConservative ==
    pc = "generated" =>
        \A t \in 0..(args.ntarget - 1), i \in 0..(args.nsource - 1) :
            Contributes(args, t, i) =>
                /\ InWindow(args, t, i)
                /\ \E k \in DOMAIN program :
                      program[k].targetIndex = t /\ program[k].sourceIndex = i

----------------------------------------------------------------------------
(* Claims about the kernels, under SpecKernel.                             *)

\* C8 as stated: every kernel's weight is exactly 0 at every distance
\* t >= 0 that is at least the kernel's boundingRadius.
C8_ZeroBeyondRadius_Original ==
    (pc = "evaluated" /\ RGe(args.t, Kernel(args.kernel).boundingRadius)) =>
        weight = Zero

\* C8 (amended): Box, Gaussian, Hermite, Mitchell and Lanczos return exactly
\* 0 at every distance t >= boundingRadius; Nearest, whose boundingRadius is
\* 0, returns 1 for t <= 0.5 and 0 for t > 0.5.
C8_ZeroBeyondRadius ==
    pc = "evaluated" =>
        /\ (args.kernel # "Nearest" /\ RGe(args.t, Kernel(args.kernel).boundingRadius))
              => weight = Zero
        /\ args.kernel = "Nearest"
              => weight = (IF RLe(args.t, R(1, 2)) THEN One ELSE Zero)

\* Mitchell has been evaluated exactly at its boundingRadius.
C8_Witness ==
    /\ pc = "evaluated"
    /\ args.kernel = "Mitchell"
    /\ args.t = Kernel("Mitchell").boundingRadius
    /\ weight = Zero

----------------------------------------------------------------------------
(* Claims about the drivers, under Spec.                                   *)

\* C2: resampleImage returns an image whose width and height are the
\* requested ones and whose channel count is the source's.
C2_ResultShape ==
    (pc = "done" /\ args.api = "resampleImage") =>
        /\ result.width = args.width
        /\ result.height = args.height
        /\ result.channels = args.source.channels
        /\ Len(result.data) = args.width * args.height * args.source.channels

\* resampleImage has returned for a request that changes both dimensions of
\* a source that is not square.
C2_Witness ==
    /\ pc = "done"
    /\ args.api = "resampleImage"
    /\ args.source.width # args.source.height
    /\ args.width # args.source.width
    /\ args.height # args.source.height
    /\ args.width # args.height

\* C3: if one of the four boundary modes is not EXCLUDE, resampleImage ends
\* in the fatal-precondition state: it takes no step of a 1D pass, so no
\* program is generated, no image allocated and no row executed.
C3_PreconditionFirst ==
    (/\ args.api = "resampleImage"
     /\ \E edge \in {"east", "north", "west", "south"} :
            args.sampler[edge] # "EXCLUDE") =>
        /\ pc \in {"call", "panic"}
        /\ program = <<>>
        /\ result = NoImage
        /\ pass = 0
        /\ row = 0

\* The call has panicked with a sampler whose only mode that is not EXCLUDE
\* is the last one the precondition tests.
C3_Witness ==
    /\ pc = "panic"
    /\ args.api = "resampleImage"
    /\ args.sampler.east = "EXCLUDE"
    /\ args.sampler.north = "EXCLUDE"
    /\ args.sampler.west = "EXCLUDE"
    /\ args.sampler.south # "EXCLUDE"

\* The sample of channel c (from 0) of the pixel in column k, line l.
SampleAt(image, k, l, c) ==
    image.data[(l * image.width + k) * image.channels + c + 1]

\* C4: computeSingleSample with the Nearest filter at the centre of pixel
\* (k, l) writes, for every channel, the source value of that pixel.
C4_NearestAtCentre ==
    (pc = "done" /\ args.api = "computeSingleSample" /\ args.filter = "NEAREST") =>
        \A k \in 0..(args.source.width - 1), l \in 0..(args.source.height - 1) :
            (/\ args.x = R(2 * k + 1, 2 * args.source.width)
             /\ args.y = R(2 * l + 1, 2 * args.source.height)) =>
                \A c \in 0..(args.source.channels - 1) :
                    pixel[c + 1] = SampleAt(args.source, k, l, c)

----------------------------------------------------------------------------
(* Claims about resampleImage1D, under Spec1D.                             *)

\* The sample of channel c of column x in row r of an image.
RowSample(image, r, x, c) == SampleAt(image, x, r, c)

IdentityCall ==
    /\ args.filter = "NEAREST"
    /\ args.twidth = args.source.width
    /\ args.range = FullRange
    /\ args.filterRadiusMultiplier = One

\* C5: the Nearest filter with target width N = source width, left = 0,
\* right = 1 and radius multiplier 1 generates, for each target t, exactly
\* the one instruction (t, t, 1), and returns the input unchanged.
C5_NearestIdentity ==
    IdentityCall =>
        /\ pc = "expand" =>
              program = [t \in 1..args.twidth |-> Mad(t - 1, t - 1, One)]
        /\ pc = "returned" => result = args.source

\* An identity call on rows of at least three samples has returned.
C5_Witness ==
    /\ IdentityCall
    /\ pc = "returned"
    /\ args.source.width >= 3
    /\ args.source.height >= 2
    /\ result.data = args.source.data

BoxHalvingCall ==
    /\ args.filter = "BOX"
    /\ args.source.width = 4
    /\ args.twidth = 2
    /\ args.range = FullRange
    /\ args.filterRadiusMultiplier = One

\* C6: the Box filter from 4 samples to 2 targets over the full range gives
\* target 0 sources 0 and 1 and target 1 sources 2 and 3, each with weight
\* 1/2, so every target is the mean of its two sources and the row
\* [1,2,3,4] yields [1.5, 3.5].
C6_BoxHalving ==
    BoxHalvingCall =>
        /\ pc = "expand" =>
              program = <<Mad(0, 0, R(1, 2)), Mad(0, 1, R(1, 2)),
                          Mad(1, 2, R(1, 2)), Mad(1, 3, R(1, 2))>>
        /\ pc = "returned" =>
              /\ \A r \in 0..(source.height - 1), t \in 0..1, c \in 0..(source.channels - 1) :
                    RowSample(result, r, t, c) =
                        RDiv(RAdd(RowSample(source, r, 2 * t, c),
                                  RowSample(source, r, 2 * t + 1, c)), F(2))
              /\ source.data = <<F(1), F(2), F(3), F(4)>> =>
                    result.data = <<R(3, 2), R(7, 2)>>

\* The row [1,2,3,4] has been resampled by such a call.
C6_Witness ==
    /\ BoxHalvingCall
    /\ pc = "returned"
    /\ source.data = <<F(1), F(2), F(3), F(4)>>
    /\ result.data = <<R(3, 2), R(7, 2)>>

\* The source indices the instructions of target index t reference.
ReferencedBy(prog, t) ==
    {prog[k].sourceIndex : k \in {j \in DOMAIN prog : prog[j].targetIndex = t}}

\* The least element of a non-empty finite set of samples.
Least(S) == CHOOSE m \in S : \A v \in S : RLe(m, v)

\* C7: under the Minimum filter every output sample that has an instruction
\* is the minimum of the source samples its instructions reference in the
\* same row, whatever the weights; [5,2,8,1] from width 4 to width 2 over
\* the full range yields [2,1].
C7_MinimumReduction ==
    (pc = "returned" /\ args.filter = "MINIMUM") =>
        /\ \A r \in 0..(source.height - 1) :
              \A t \in 0..(args.twidth * source.channels - 1) :
                  LET refs == ReferencedBy(program, t)
                      tbase == r * args.twidth * source.channels
                      sbase == r * source.width * source.channels
                  IN  refs # {} =>
                         result.data[tbase + t + 1] =
                             Least({source.data[sbase + s + 1] : s \in refs})
        /\ (/\ source.data = <<F(5), F(2), F(8), F(1)>>
            /\ source.width = 4
            /\ args.twidth = 2
            /\ args.range = FullRange
            /\ args.filterRadiusMultiplier = One) =>
               result.data = <<F(2), F(1)>>

\* [5,2,8,1] has been reduced to [2,1].
C7_Witness ==
    /\ pc = "returned"
    /\ args.filter = "MINIMUM"
    /\ args.range = FullRange
    /\ source.width = 4
    /\ source.data = <<F(5), F(2), F(8), F(1)>>
    /\ result.data = <<F(2), F(1)>>

----------------------------------------------------------------------------
(* SpecRows: one call of resampleImage1D whose row loop (lines 238-246 and *)
(* 251-257) runs its iterations in any order, interleaved instruction by   *)
(* instruction, as row-parallel workers would.  Generation, expansion and  *)
(* allocation are the steps of resampleImage1D; ip[r] counts the           *)
(* instructions already executed for row r.                                *)

MaxRowLen == 3   \* largest width of the source and of the target of such a call
MaxRows == 2     \* largest number of rows of such a call

RowsImages ==
    {CountingImage(w, h, c) : w \in 1..MaxRowLen, h \in 1..MaxRows, c \in {1, 2}}
RowsFilters == {"DEFAULT", "BOX", "NEAREST", "MITCHELL", "MINIMUM"}
\* The last range is the one computeSingleSample passes for x = 1/4, width 2.
RowsRanges == {FullRange, <<R(1, 4), R(3, 4)>>, <<R(-1, 4), R(3, 4)>>}

\* One instruction of the iteration of row r: line 253, or lines 240-242 in
\* minimum mode.
ExecuteInstruction ==
    /\ pc \in {"execute", "executeMin"}
    /\ \E r \in DOMAIN ip :
          /\ ip[r] < Len(program)
          /\ LET mad == <<program[ip[r] + 1]>>
                 tbase == r * frame.twidth * source.channels
                 sbase == r * source.width * source.channels
             IN  result' = [result EXCEPT !.data =
                     IF pc = "executeMin"
                     THEN executeMinRow(@, source.data, mad, tbase, sbase)
                     ELSE executeRow(@, source.data, mad, tbase, sbase)]
          /\ ip' = [ip EXCEPT ![r] = @ + 1]
    /\ UNCHANGED <<pc, args, program, weight, source, frame, pass, row, pixel>>

\* Every row has run the whole program: the function returns.
FinishAnyOrder ==
    /\ pc \in {"execute", "executeMin"}
    /\ \A r \in DOMAIN ip : ip[r] = Len(program)
    /\ pc' = "return"
    /\ UNCHANGED <<args, program, weight, source, result, frame, pass, row, pixel, ip>>

InitRows ==
    /\ pc = "filter"
    /\ args \in [api : {"resampleImage1D"}, source : RowsImages, twidth : 1..MaxRowLen,
                 filter : RowsFilters, range : RowsRanges,
                 filterRadiusMultiplier : {One}]
    /\ frame = Frame(args.twidth, args.filter, args.range[1], args.range[2],
                     args.filterRadiusMultiplier)
    /\ source = args.source
    /\ program = <<>>
    /\ weight = Zero
    /\ result = NoImage
    /\ pass = 0
    /\ row = 0
    /\ pixel = <<>>
    /\ ip = [r \in 0..(args.source.height - 1) |-> 0]

NextRows ==
    \/ ResolveFilter
    \/ ClearProgram
    \/ GenerateProgram
    \/ ExpandProgram
    \/ AllocateResult
    \/ FillMax
    \/ ExecuteInstruction
    \/ FinishAnyOrder
    \/ Return1D

SpecRows == InitRows /\ [][NextRows]_vars

----------------------------------------------------------------------------
(* Claim about the rows of a pass, under SpecRows.                         *)

\* The samples of row r of an image of the given width and channel count.
RowOf(data, r, width, channels) ==
    [i \in 1..(width * channels) |-> data[r * width * channels + i]]

\* The target as line 229 allocates it, max-filled by line 236 in minimum mode.
FreshTarget ==
    [i \in 1..(frame.twidth * source.height * source.channels) |->
        IF frame.filter = "MINIMUM" THEN FloatMax ELSE Zero]

\* The target data when only row r has run, and only its first n
\* instructions, on the freshly allocated (or max-filled) target.
AfterRowPrefix(r, n) ==
    LET minimum == frame.filter = "MINIMUM"
        fresh == FreshTarget
        tbase == r * frame.twidth * source.channels
        sbase == r * source.width * source.channels
        prefix == SubSeq(program, 1, n)
    IN  IF minimum
        THEN executeMinRow(fresh, source.data, prefix, tbase, sbase)
        ELSE executeRow(fresh, source.data, prefix, tbase, sbase)

\* The loop of lines 238-246 or 251-257 run in row order, from row r on.
RECURSIVE SequentialRows(_, _)
SequentialRows(data, r) ==
    IF r >= source.height THEN data
    ELSE LET tbase == r * frame.twidth * source.channels
             sbase == r * source.width * source.channels
         IN  SequentialRows(
                 IF frame.filter = "MINIMUM"
                 THEN executeMinRow(data, source.data, program, tbase, sbase)
                 ELSE executeRow(data, source.data, program, tbase, sbase),
                 r + 1)

\* C11: every instruction of the generated and expanded program has
\* 0 <= sourceIndex < S*C and 0 <= targetIndex < T*C; so whatever the order
\* and interleaving of the rows, row r of the target holds what the
\* instructions run for row r alone produce from row r of the source, and
\* the returned image is the one the sequential loop computes.
C11_RowsDisjoint ==
    /\ pc = "expand" =>
          \A k \in DOMAIN program :
              /\ 0 <= program[k].sourceIndex
              /\ program[k].sourceIndex < source.width
              /\ 0 <= program[k].targetIndex
              /\ program[k].targetIndex < frame.twidth
    /\ pc \in {"allocate", "fill", "execute", "executeMin", "return", "returned"} =>
          \A k \in DOMAIN program :
              /\ 0 <= program[k].sourceIndex
              /\ program[k].sourceIndex < source.width * source.channels
              /\ 0 <= program[k].targetIndex
              /\ program[k].targetIndex < frame.twidth * source.channels
    /\ pc \in {"execute", "executeMin", "return", "returned"} =>
          \A r \in DOMAIN ip :
              RowOf(result.data, r, frame.twidth, source.channels) =
                  RowOf(AfterRowPrefix(r, ip[r]), r, frame.twidth, source.channels)
    /\ pc \in {"return", "returned"} => result.data = SequentialRows(FreshTarget, 0)

\* Two rows of a two-channel image are both part-way through a program of
\* several instructions, the second row ahead of the first.
C11_Witness ==
    /\ pc = "execute"
    /\ source.channels = 2
    /\ DOMAIN ip = 0..1
    /\ Len(program) > 2
    /\ 0 < ip[0]
    /\ ip[0] < ip[1]
    /\ ip[1] < Len(program)

----------------------------------------------------------------------------
(* Claim about the program buffer shared by the two passes, under Spec.    *)

\* The filter a pass uses for a target of ntarget and a source of nsource
\* samples (lines 216-221).
ResolvedFilter(filter, ntarget, nsource) ==
    IF filter = "DEFAULT"
    THEN (IF ntarget > nsource THEN "MITCHELL" ELSE "LANCZOS")
    ELSE filter

\* The arguments of pass p of the call args, as lines 286-287 and 299-300
\* pass them: target length, source length, range, filter, radius multiplier.
PassParameters(p) ==
    IF args.api = "resampleImage"
    THEN IF p = 1
         THEN [ntarget |-> args.width, nsource |-> args.source.width,
               left |-> args.sampler.sourceRegion.left,
               right |-> args.sampler.sourceRegion.right,
               filter |-> args.sampler.horizontalFilter,
               radius |-> args.sampler.filterRadiusMultiplier]
         ELSE [ntarget |-> args.height, nsource |-> args.source.height,
               left |-> args.sampler.sourceRegion.top,
               right |-> args.sampler.sourceRegion.bottom,
               filter |-> args.sampler.verticalFilter,
               radius |-> args.sampler.filterRadiusMultiplier]
    ELSE IF p = 1
         THEN [ntarget |-> 1, nsource |-> args.source.width,
               left |-> RSub(args.x, RDiv(One, F(args.source.width))),
               right |-> RAdd(args.x, RDiv(One, F(args.source.width))),
               filter |-> args.filter, radius |-> One]
         ELSE [ntarget |-> 1, nsource |-> args.source.height,
               left |-> RSub(args.y, RDiv(One, F(args.source.height))),
               right |-> RAdd(args.y, RDiv(One, F(args.source.height))),
               filter |-> args.filter, radius |-> One]

\* The channel-expanded program generated for the axis of pass p alone.
PassProgram(p) ==
    LET a == PassParameters(p)
        filter == createFilterFunction(ResolvedFilter(a.filter, a.ntarget, a.nsource))
    IN  expandMadProgram(args.source.channels,
            generateMadProgram(a.ntarget, a.nsource, a.left, a.right, filter, a.radius))

\* C12: in both passes of resampleImage and of computeSingleSample the
\* shared buffer is empty when generation starts, and from the allocation
\* of the target to the return of the pass, every row iteration included,
\* it holds exactly the channel-expanded program generated for that pass's
\* axis: nothing of the earlier pass is left in it.
C12_ProgramOfThePass ==
    /\ (pass \in {1, 2} /\ pc = "generate") => program = <<>>
    /\ (pass \in {1, 2} /\ pc \in {"allocate", "fill", "execute", "executeMin", "return"})
          => program = PassProgram(pass)

\* The vertical pass of resampleImage is past its first row, its program
\* differs from the horizontal pass's, which was not empty.
C12_Witness ==
    /\ args.api = "resampleImage"
    /\ pass = 2
    /\ pc \in {"execute", "executeMin"}
    /\ row >= 1
    /\ program = PassProgram(2)
    /\ PassProgram(1) # <<>>
    /\ PassProgram(2) # PassProgram(1)

====
